---- MODULE Spec2Model ----
(***************************************************************************)
(* Model of pages/00_수행평가.py: a Streamlit page that loads 'm.csv',      *)
(* lists the regions ('시도'), lets the user pick one in a sidebar          *)
(* selectbox, counts the facilities of the region per type ('기관유형'),    *)
(* sorts the counts descending and colours the bars: the first row red,    *)
(* the others from the reversed Blues palette.                             *)
(*                                                                         *)
(* A name (region or facility type) is coded by its rank in ascending      *)
(* string order: 1 < 2 < ... stands for "강원" < "서울" < ...  A missing    *)
(* CSV field is NaN.  A row of the CSV is [sido, facility_type], the other *)
(* columns are never read.                                                 *)
(***************************************************************************)
EXTENDS Integers, Sequences, FiniteSets, TLC

VARIABLES
    file,           \* 'm.csv' on disk: [exists, rows]
    tie_order,      \* the build's sort: how it leaves each group of equal counts
    config_rule,    \* the build's Streamlit: where set_page_config may be called
    cache,          \* st.cache_data memo of load_data: <<>> or <<result>>
    df,             \* the module-level df of the latest script run
    error_shown,    \* st.error was rendered in the latest run
    all_sidos,      \* options of the selectbox in the latest run
    selected_sido,  \* value of the selectbox in the latest run
    type_counts,    \* rows [facility_type, count] of the latest run
    colors,         \* marker colours of the latest run
    top_type,       \* type of the first row of the latest run
    screen          \* what the page shows: "none" before the first run

vars == <<file, tie_order, config_rule, cache, df, error_shown, all_sidos, selected_sido,
          type_counts, colors, top_type, screen>>

-----------------------------------------------------------------------------
(* Bounds *)

\* longest free-form CSV
MaxRecs == 3
\* most facility types of a region in the structured CSVs
MaxBars == 11

-----------------------------------------------------------------------------
(* Values *)

\* what pd.read_csv puts in place of an empty field; NaN is not a name
NaN == 0

Sido == {1, 2}
FacilityTypes == {1, 2, 3}

\* "no value": the variable was not assigned in the run
None == -1

Min(a, b) == IF a < b THEN a ELSE b

-----------------------------------------------------------------------------
(* load_data *)

\* pd.read_csv inside try/except FileNotFoundError: the table, or an empty
\* DataFrame with st.error rendered
read_csv_or_empty(f) ==
    IF f.exists THEN [df |-> f.rows, error |-> FALSE]
                ELSE [df |-> <<>>, error |-> TRUE]

\* @st.cache_data: the body runs on the first call only; a hit returns the
\* memoised value and replays the elements (st.error) the body rendered
load_data(f, memo) ==
    IF memo # <<>> THEN memo[1] ELSE read_csv_or_empty(f)

\* DataFrame.empty
empty(t) == t = <<>>

-----------------------------------------------------------------------------
(* Region list *)

RECURSIVE uniqueFrom(_, _, _)
uniqueFrom(col, i, seen) ==
    IF i > Len(col) THEN seen
    ELSE IF \E k \in 1..Len(seen) : seen[k] = col[i]
         THEN uniqueFrom(col, i + 1, seen)
         ELSE uniqueFrom(col, i + 1, Append(seen, col[i]))

\* Series.unique().tolist(): the distinct values in order of first
\* appearance, all NaN collapsed into one
unique(col) == uniqueFrom(col, 1, <<>>)

sido_column(t) == [i \in 1..Len(t) |-> t[i].sido]

\* mutant: the counted column is '시도' instead of '기관유형'
facility_type_column_sido(t) == [i \in 1..Len(t) |-> t[i].sido]

facility_type_column(t) == [i \in 1..Len(t) |-> t[i].facility_type]

\* sorted() compares a float NaN with a str as soon as the list holds both:
\* TypeError
sorted_raises(l) ==
    /\ Len(l) > 1
    /\ \E i \in 1..Len(l) : l[i] = NaN

RECURSIVE insert_sorted(_, _)
insert_sorted(l, x) ==
    IF l = <<>> THEN <<x>>
    ELSE IF x < Head(l) THEN <<x>> \o l
         ELSE <<Head(l)>> \o insert_sorted(Tail(l), x)

RECURSIVE sortedFrom(_, _, _)
sortedFrom(l, i, acc) ==
    IF i > Len(l) THEN acc ELSE sortedFrom(l, i + 1, insert_sorted(acc, l[i]))

\* sorted(list) of names, ascending
sorted(l) == sortedFrom(l, 1, <<>>)

\* st.sidebar.selectbox: the user's choice when it is one of the options,
\* else the first option
selectbox(options, widget) ==
    IF widget.set /\ \E i \in 1..Len(options) : options[i] = widget.value
    THEN widget.value
    ELSE options[1]

-----------------------------------------------------------------------------
(* Filter and count *)

\* elementwise ==: NaN equals nothing, itself included
eq(a, b) == a # NaN /\ b # NaN /\ a = b

\* mutant: the filter is left out
filtered_df_unfiltered(t, sel) == t

\* mutant: the filter keeps the region of the previous run
filtered_df_stale(t, sel) ==
    SelectSeq(t, LAMBDA r :
        eq(r.sido, IF selected_sido = None THEN sel ELSE selected_sido))

\* df[df['시도'] == selected_sido]
filtered_df(t, sel) == SelectSeq(t, LAMBDA r : eq(r.sido, sel))

RECURSIVE tally(_, _, _)
tally(col, i, acc) ==
    IF i > Len(col) THEN acc
    ELSE IF col[i] = NaN THEN tally(col, i + 1, acc)
    ELSE IF \E k \in 1..Len(acc) : acc[k].facility_type = col[i]
         THEN tally(col, i + 1,
                    [k \in 1..Len(acc) |->
                        IF acc[k].facility_type = col[i]
                        THEN [acc[k] EXCEPT !.count = @ + 1]
                        ELSE acc[k]])
         ELSE tally(col, i + 1,
                    Append(acc, [facility_type |-> col[i], count |-> 1]))

\* the hash-table pass of value_counts (dropna=True): one row per distinct
\* non-NaN value, in order of first appearance
hash_counts(col) == tally(col, 1, <<>>)

\* the orders a group of equal counts can be left in: the permutations of
\* the ranks 1..N, N the most rows a group has in the CSVs drawn below
Perms ==
    LET N == Cardinality(FacilityTypes)
    IN  {p \in [1..N -> 1..N] : \A i, k \in 1..N : i # k => p[i] # p[k]}

\* the rank of row a by name among the rows of the table with a's count
name_rank(a, table) ==
    1 + Cardinality({i \in 1..Len(table) :
                        /\ table[i].count = a.count
                        /\ table[i].facility_type < a.facility_type})

\* mutant: the sort is by the type column instead of the count column
before_by_type(a, b, table, order) == a.facility_type < b.facility_type

\* whether row a comes out before row b of the descending sort by count.
\* The count column is the only key and no `kind` is passed, so the sort is
\* the library's default, which is not stable: where rows with equal counts
\* end up is a matter of the build.  order[c] is the permutation the build
\* leaves the rows of count c in, whatever order they came in: every order
\* of such a group is among the outcomes, the order of first appearance
\* included
before(a, b, table, order) ==
    \/ a.count > b.count
    \/ /\ a.count = b.count
       /\ order[a.count][name_rank(a, table)]
              < order[b.count][name_rank(b, table)]

RECURSIVE insert_row(_, _, _, _)
insert_row(l, x, table, order) ==
    IF l = <<>> THEN <<x>>
    ELSE IF before(x, Head(l), table, order) THEN <<x>> \o l
         ELSE <<Head(l)>> \o insert_row(Tail(l), x, table, order)

RECURSIVE sortFrom(_, _, _, _)
sortFrom(rows, i, acc, order) ==
    IF i > Len(rows) THEN acc
    ELSE sortFrom(rows, i + 1, insert_row(acc, rows[i], rows, order), order)

\* mutant: ascending=False is left out
sort_values_ascending(rows, order) ==
    LET s == sortFrom(rows, 1, <<>>, order)
    IN  [i \in 1..Len(s) |-> s[Len(s) + 1 - i]]

\* sort_values(by='기관_수', ascending=False).reset_index(drop=True)
sort_values(rows, order) == sortFrom(rows, 1, <<>>, order)

\* Series.value_counts().reset_index(): counted, then sorted descending by
\* the same default sort
value_counts(col, order) == sort_values(hash_counts(col), order)

\* lines 49-56: filter, count per type, sort descending
aggregate(t, sel, order) ==
    sort_values(value_counts(facility_type_column(filtered_df(t, sel)), order),
                order)

-----------------------------------------------------------------------------
(* Colours *)

\* px.colors.sequential.Blues_r: darkest first
Blues_r == << "rgb(8,48,107)", "rgb(8,81,156)", "rgb(33,113,181)",
              "rgb(66,146,198)", "rgb(107,174,214)", "rgb(158,202,225)",
              "rgb(198,219,239)", "rgb(222,235,247)", "rgb(247,251,255)" >>

highlight == "red"

fallback == "#4c78a8"

\* l[j] of a Python list, j >= 0
list_get(l, j) == IF j < Len(l) THEN l[j + 1] ELSE "IndexError"

\* mutant: Blues (lightest first) instead of Blues_r
blue_gradient_colors_Blues(num_other_bars) ==
    IF num_other_bars > 0
    THEN [i \in 1..Min(num_other_bars, Len(Blues_r)) |->
              Blues_r[Len(Blues_r) + 1 - i]]
    ELSE <<>>

\* Blues_r[:num_other_bars] when num_other_bars > 0, else []
blue_gradient_colors(num_other_bars) ==
    IF num_other_bars > 0
    THEN SubSeq(Blues_r, 1, Min(num_other_bars, Len(Blues_r)))
    ELSE <<>>

\* mutant: the test j < len(blue_gradient_colors) is left out
other_color_unguarded(gradient, j) == list_get(gradient, j)

\* the else branch of the loop body: the j-th gradient colour, or the default
other_color(gradient, j) ==
    IF j < Len(gradient) THEN list_get(gradient, j) ELSE fallback

\* the test of the loop body
is_top(row, top) == row.facility_type = top

RECURSIVE color_loop(_, _, _, _, _)
color_loop(rows, top, gradient, i, j) ==
    IF i > Len(rows) THEN <<>>
    ELSE IF is_top(rows[i], top)
         THEN <<highlight>> \o color_loop(rows, top, gradient, i + 1, j)
         ELSE <<other_color(gradient, j)>>
                  \o color_loop(rows, top, gradient, i + 1, j + 1)

\* lines 63-88
assign_colors(rows) ==
    color_loop(rows, rows[1].facility_type,
               blue_gradient_colors(Len(rows) - 1), 1, 0)

-----------------------------------------------------------------------------
(* The script *)

\* `if not df.empty:`
has_data(t) == ~empty(t)

\* mutant: the test of type_counts.empty is left out
has_rows_always(rows) == TRUE

\* `if not type_counts.empty:`
has_rows(rows) == ~empty(rows)

Blank(loaded) ==
    [df |-> loaded.df, error_shown |-> loaded.error, all_sidos |-> <<>>,
     selected_sido |-> None, type_counts |-> <<>>, colors |-> <<>>,
     top_type |-> None, screen |-> "blank"]

\* what a Streamlit release makes of st.set_page_config:
\*   "anywhere"      it is accepted wherever the script calls it
\*   "first_element" it must come before every element the script renders
\*   "first_command" as above, and the spinner that st.cache_data puts
\*                   around a call of load_data counts as an element
ConfigRules == {"anywhere", "first_element", "first_command"}

\* st.set_page_config (line 29) comes after load_data (line 27): it raises
\* StreamlitAPIException where it had to come first, once load_data has
\* rendered st.error, or has been called at all where the spinner counts
set_page_config_raises(loaded, rule) ==
    \/ rule = "first_element" /\ loaded.error
    \/ rule = "first_command"

\* one run of the page, top to bottom; widget is the selectbox's session
\* state, order the build's sort per region, rule the build's rule for
\* set_page_config.  An uncaught exception ends the run with the names after
\* it unassigned: StreamlitAPIException from set_page_config, TypeError from
\* sorted(), IndexError from type_counts.iloc[0] on an empty table
script(f, memo, widget, order, rule) ==
    LET loaded == load_data(f, memo)
        t == loaded.df
        regions == unique(sido_column(t))
    IN  IF set_page_config_raises(loaded, rule)
        THEN [Blank(loaded) EXCEPT !.screen = "exception"]
        ELSE IF ~has_data(t) THEN Blank(loaded)
        ELSE IF sorted_raises(regions)
        THEN [Blank(loaded) EXCEPT !.screen = "exception"]
        ELSE
          LET options == sorted(regions)
              sel == selectbox(options, widget)
              rows == aggregate(t, sel,
                                IF sel = NaN THEN order[1] ELSE order[sel])
          IN  IF has_rows(rows)
              THEN IF empty(rows)
                   THEN [Blank(loaded) EXCEPT !.all_sidos = options,
                                              !.selected_sido = sel,
                                              !.screen = "exception"]
                   ELSE [df |-> t, error_shown |-> loaded.error,
                         all_sidos |-> options, selected_sido |-> sel,
                         type_counts |-> rows, colors |-> assign_colors(rows),
                         top_type |-> rows[1].facility_type,
                         screen |-> "chart"]
              ELSE [Blank(loaded) EXCEPT !.all_sidos = options,
                                         !.selected_sido = sel,
                                         !.screen = "warning"]

Shows(out) ==
    /\ df' = out.df
    /\ error_shown' = out.error_shown
    /\ all_sidos' = out.all_sidos
    /\ selected_sido' = out.selected_sido
    /\ type_counts' = out.type_counts
    /\ colors' = out.colors
    /\ top_type' = out.top_type
    /\ screen' = out.screen

-----------------------------------------------------------------------------
(* Inputs *)

Records == [sido : Sido \cup {NaN}, facility_type : FacilityTypes \cup {NaN}]

\* every CSV of at most MaxRecs rows
FreeFiles == UNION {[1..k -> Records] : k \in 0..MaxRecs}

\* the count of the type first seen at place p of a bar file
bar_count(p) == (p + 1) \div 2

\* region 1 with n facility types, the one first seen at place p
\* bar_count(p) times, so that equal counts come in pairs, and one row of
\* region 2; the types are first seen in ascending or in descending name
\* order
BarFile(n, ascending) ==
    LET grid == [i \in 1..(n * bar_count(n)) |->
                    [round |-> ((i - 1) \div n) + 1, place |-> ((i - 1) % n) + 1]]
        kept == SelectSeq(grid, LAMBDA g : g.round <= bar_count(g.place))
    IN  [i \in 1..Len(kept) |->
            [sido |-> 1,
             facility_type |-> IF ascending THEN kept[i].place
                                            ELSE n + 1 - kept[i].place]]
        \o <<[sido |-> 2, facility_type |-> 1]>>

BarFiles == {BarFile(n, a) : n \in 0..MaxBars, a \in BOOLEAN}

Files ==
    {[exists |-> FALSE, rows |-> <<>>]}
        \cup {[exists |-> TRUE, rows |-> r] : r \in FreeFiles \cup BarFiles}

\* the largest count a type has in a CSV drawn above
MaxCount == IF MaxRecs > bar_count(MaxBars) THEN MaxRecs ELSE bar_count(MaxBars)

\* number of facility types of region r that table t holds c times
group_size(t, r, c) ==
    LET of_type(ty) == {i \in 1..Len(t) : t[i].sido = r /\ t[i].facility_type = ty}
    IN  Cardinality({ty \in {t[i].facility_type : i \in 1..Len(t)} \ {NaN} :
                        Cardinality(of_type(ty)) = c})

\* the orders that differ on a group of g rows
orders_of(g) == {p \in Perms : \A k \in DOMAIN p : k > g => p[k] = k}

\* for region r of table t, one order for each count up to c
RECURSIVE count_orders(_, _, _)
count_orders(t, r, c) ==
    IF c = 0 THEN {<<>>}
    ELSE {Append(o, p) : o \in count_orders(t, r, c - 1),
                         p \in orders_of(group_size(t, r, c))}

\* for table t, one such choice for each region up to r: the ways a build's
\* sort can act on t
RECURSIVE TieOrders(_, _)
TieOrders(t, r) ==
    IF r = 0 THEN {<<>>}
    ELSE {Append(o, q) : o \in TieOrders(t, r - 1),
                         q \in count_orders(t, r, MaxCount)}

-----------------------------------------------------------------------------
(* Behaviour *)

Init ==
    /\ file \in Files
    /\ selected_sido = None
    /\ tie_order \in TieOrders(file.rows, Cardinality(Sido))
    /\ config_rule \in ConfigRules
    /\ cache = <<>>
    /\ df = <<>>
    /\ error_shown = FALSE
    /\ all_sidos = <<>>
    /\ type_counts = <<>>
    /\ colors = <<>>
    /\ top_type = None
    /\ screen = "none"

\* the first run of a session: the selectbox has no state yet
Run ==
    /\ screen = "none"
    /\ cache' = <<load_data(file, cache)>>
    /\ Shows(script(file, cache, [set |-> FALSE, value |-> None],
                    tie_order, config_rule))
    /\ UNCHANGED <<file, tie_order, config_rule>>

\* the user picks option r: Streamlit reruns the script with that value
SelectRegion(r) ==
    /\ screen \in {"chart", "warning"}
    /\ \E i \in 1..Len(all_sidos) : all_sidos[i] = r
    /\ cache' = <<load_data(file, cache)>>
    /\ Shows(script(file, cache, [set |-> TRUE, value |-> r],
                    tie_order, config_rule))
    /\ UNCHANGED <<file, tie_order, config_rule>>

Next ==
    \/ Run
    \/ \E r \in Sido \cup {NaN} : SelectRegion(r)

Spec == Init /\ [][Next]_vars

-----------------------------------------------------------------------------
(* Percentages.  The page under pages/ charts the counts only; the          *)
(* percentage columns are those the specification gives for an aggregated   *)
(* row, computed here over the rows the page produces.  A percentage is     *)
(* kept exact, as the fraction num/den.                                     *)

RECURSIVE sum_counts(_)
sum_counts(rows) ==
    IF rows = <<>> THEN 0 ELSE Head(rows).count + sum_counts(Tail(rows))

totalForRegion(rows) == sum_counts(rows)

percentageOfRegion(row, rows) ==
    [num |-> 100 * row.count, den |-> totalForRegion(rows)]

\* round(x, 2) of x = num/den, in hundredths; halves go to the even digit
round2(num, den) ==
    LET q == (100 * num) \div den
        r == (100 * num) % den
    IN  IF 2 * r < den THEN q
        ELSE IF 2 * r > den THEN q + 1
        ELSE IF q % 2 = 0 THEN q ELSE q + 1

roundedPercentage(row, rows) ==
    round2(percentageOfRegion(row, rows).num, percentageOfRegion(row, rows).den)

AggregatedRows(rows) ==
    [i \in 1..Len(rows) |->
        [facilityType |-> rows[i].facility_type,
         count |-> rows[i].count,
         percentageOfRegion |-> percentageOfRegion(rows[i], rows),
         roundedPercentage |-> roundedPercentage(rows[i], rows)]]

-----------------------------------------------------------------------------
(* Vocabulary of the claims *)

\* the run listed the regions and aggregated the selected one
Aggregated == screen \in {"chart", "warning"}

\* records of the loaded table whose region is r (== on the column)
RecordsOf(r) == {i \in 1..Len(df) : r # NaN /\ df[i].sido = r}

\* those of them that name a facility type
WellFormedOf(r) == {i \in RecordsOf(r) : df[i].facility_type # NaN}

\* those of them of type t
OfType(r, t) == {i \in RecordsOf(r) : t # NaN /\ df[i].facility_type = t}

Malformed(rows) ==
    \E i \in 1..Len(rows) : rows[i].sido = NaN \/ rows[i].facility_type = NaN

\* number of rows that are not the highlighted one
NumOther == Len(type_counts) - 1

\* the place of a colour in the palette, counted from 0; None for a colour
\* that is not of the palette
PaletteIndexOf(c) ==
    IF \E k \in 1..Len(Blues_r) : Blues_r[k] = c
    THEN (CHOOSE k \in 1..Len(Blues_r) : Blues_r[k] = c) - 1
    ELSE None

\* Python's round(num/den): halves go to the even integer
RoundHalfEven(num, den) ==
    LET q == num \div den
        r == num % den
    IN  IF 2 * r < den THEN q
        ELSE IF 2 * r > den THEN q + 1
        ELSE IF q % 2 = 0 THEN q ELSE q + 1

\* the palette index the specification gives the non-highlight row at
\* position i of n rows
SampledIndex(i, n) ==
    IF n - 1 > 1 THEN RoundHalfEven(i * (Len(Blues_r) - 1), n - 2) ELSE 0

-----------------------------------------------------------------------------
(* C1 *)

\* C1 as stated: after an aggregation of a region R of the dataset, the
\* counts of the rows sum to the number of records whose region is R, also
\* when some records of R lack the facility type.
C1_SumIsAllRecords ==
    (Aggregated /\ selected_sido # NaN)
        => sum_counts(type_counts) = Cardinality(RecordsOf(selected_sido))

\* C1 (amended): after an aggregation of a region R of the dataset, the
\* counts of the rows sum to the number of records of R that name a facility
\* type; records of R without one are not counted.
C1_SumIsWellFormedRecords ==
    (Aggregated /\ selected_sido # NaN)
        => sum_counts(type_counts) = Cardinality(WellFormedOf(selected_sido))

\* a region with a counted record, a record without facility type and a
\* record of another region
C1_Witness ==
    /\ screen = "chart"
    /\ WellFormedOf(selected_sido) # RecordsOf(selected_sido)
    /\ Cardinality(RecordsOf(selected_sido)) < Len(df)

-----------------------------------------------------------------------------
(* C2 *)

\* C2: in every non-empty aggregated result exactly one row is coloured red,
\* it has the maximum count, and no other row is red, however many rows
\* there are and whether or not the maximum is shared.
C2_OneHighlightAtMaximum ==
    screen = "chart" =>
        /\ Cardinality({i \in 1..Len(colors) : colors[i] = highlight}) = 1
        /\ \A i \in 1..Len(colors) :
              colors[i] = highlight =>
                  /\ i \in 1..Len(type_counts)
                  /\ \A k \in 1..Len(type_counts) :
                        type_counts[i].count >= type_counts[k].count

\* three rows or more, the maximum shared by two, a smaller count below
C2_Witness ==
    /\ screen = "chart"
    /\ Len(type_counts) >= 3
    /\ type_counts[1].count = type_counts[2].count
    /\ type_counts[Len(type_counts)].count < type_counts[1].count
    /\ colors[1] = highlight

-----------------------------------------------------------------------------
(* C3 *)

\* C3 as stated: the rows are ordered by count descending, equal counts by
\* facility-type name ascending.
C3_TiesByNameAscending ==
    Aggregated =>
        \A i, k \in 1..Len(type_counts) :
            i < k =>
                \/ type_counts[i].count > type_counts[k].count
                \/ /\ type_counts[i].count = type_counts[k].count
                   /\ type_counts[i].facility_type < type_counts[k].facility_type

\* C3 (amended): the rows are ordered by count descending, one row per
\* facility type; the order of rows with equal counts is the one the
\* library's default sort leaves, which is not by name.
C3_CountDescending ==
    Aggregated =>
        \A i, k \in 1..Len(type_counts) :
            i < k =>
                /\ type_counts[i].count >= type_counts[k].count
                /\ type_counts[i].facility_type # type_counts[k].facility_type

\* a larger count first, then two equal counts that are not in name order
C3_Witness ==
    /\ screen = "chart"
    /\ Len(type_counts) >= 3
    /\ type_counts[1].count > type_counts[2].count
    /\ type_counts[2].count = type_counts[3].count
    /\ type_counts[2].facility_type > type_counts[3].facility_type

-----------------------------------------------------------------------------
(* C4 *)

\* C4 as stated: the non-highlight row at position i of n rows has the
\* colour palette[round(i*(L-1)/(n-2))] when n-1 > 1 and palette[0] when
\* n-1 = 1, so the last row has the lightest colour.
C4_SampledAcrossPalette ==
    screen = "chart" =>
        \A i \in 0..(NumOther - 1) :
            colors[i + 2] = Blues_r[SampledIndex(i, Len(type_counts)) + 1]

\* C4 (amended): the non-highlight row at position i has the colour
\* palette[i] when i < L, an index within [0, L-1], and a colour that is not
\* of the palette when i >= L; with n-1 = 1 it is palette[0]; the last row
\* has the lightest palette colour exactly when n-1 = L.
C4_PaletteIndexIsPosition ==
    screen = "chart" =>
        /\ \A i \in 0..(NumOther - 1) :
              PaletteIndexOf(colors[i + 2]) =
                  IF i < Len(Blues_r) THEN i ELSE None
        /\ NumOther = 1 => colors[2] = Blues_r[1]
        /\ NumOther >= 1 =>
              (colors[Len(colors)] = Blues_r[Len(Blues_r)]
                  <=> NumOther = Len(Blues_r))

\* more non-highlight rows than palette colours
C4_Witness ==
    /\ screen = "chart"
    /\ NumOther > Len(Blues_r)
    /\ PaletteIndexOf(colors[Len(Blues_r) + 1]) = Len(Blues_r) - 1
    /\ PaletteIndexOf(colors[Len(colors)]) = None

-----------------------------------------------------------------------------
(* C5 *)

-----------------------------------------------------------------------------
(* C6 *)

\* C6: with the input file missing, a run ends with the error reported and
\* an empty dataset, without an exception, and lists no region, aggregates
\* nothing, assigns no colour and renders no chart or table.
C6_MissingFileIsUnavailable ==
    (~file.exists /\ screen # "none") =>
        /\ screen = "blank"
        /\ error_shown
        /\ df = <<>>
        /\ all_sidos = <<>>
        /\ selected_sido = None
        /\ type_counts = <<>>
        /\ colors = <<>>
        /\ top_type = None

-----------------------------------------------------------------------------
(* C7 *)

\* C7: a dataset with records that lack the region or the facility type
\* never aborts the run: in a run that reaches the body of the page, the
\* region list is produced, and the aggregation and colour assignment
\* complete and count the well-formed records only.
C7_MalformedNeverAborts ==
    (/\ file.exists
     /\ Malformed(file.rows)
     /\ screen # "none"
     /\ ~set_page_config_raises(load_data(file, cache), config_rule)) =>
        /\ Aggregated
        /\ all_sidos # <<>>
        /\ sum_counts(type_counts) = Cardinality(WellFormedOf(selected_sido))
        /\ Len(colors) = Len(type_counts)

-----------------------------------------------------------------------------
(* C8 *)

\* C8: with a selected region that has no record, the aggregated sequence
\* and the colour list are empty, no row is taken as the maximum, nothing
\* raises, and the page shows the "no data" warning and not the chart.
C8_NoRecordsIsNoData ==
    (all_sidos # <<>> /\ RecordsOf(selected_sido) = {}) =>
        /\ screen = "warning"
        /\ type_counts = <<>>
        /\ colors = <<>>
        /\ top_type = None

\* a non-empty table whose selected region matches no record
C8_Witness ==
    /\ screen = "warning"
    /\ df # <<>>
    /\ all_sidos # <<>>
    /\ RecordsOf(selected_sido) = {}

-----------------------------------------------------------------------------
(* C9 *)

\* the rows and colours shown are those of the loaded file and the current
\* selection alone: one row per type of the region with its number of
\* records, in the order a computation from the file gives, and the colours
\* of those rows
C9_Fresh ==
    Aggregated =>
        /\ df = file.rows
        /\ {type_counts[i] : i \in 1..Len(type_counts)}
              = {[facility_type |-> t,
                  count |-> Cardinality(OfType(selected_sido, t))] :
                    t \in {df[i].facility_type : i \in WellFormedOf(selected_sido)}}
        /\ Cardinality({type_counts[i].facility_type : i \in 1..Len(type_counts)})
              = Len(type_counts)
        /\ type_counts =
              aggregate(file.rows, selected_sido,
                        IF selected_sido = NaN THEN tie_order[1]
                                               ELSE tie_order[selected_sido])
        /\ colors = IF type_counts = <<>> THEN <<>> ELSE assign_colors(type_counts)
        /\ \A i \in 1..Len(all_sidos) : \E k \in 1..Len(df) : df[k].sido = all_sidos[i]

\* a selection leaves the file, the loaded dataset and the options alone
C9_Frame ==
    Aggregated =>
        /\ file' = file
        /\ cache' = cache
        /\ df' = df
        /\ all_sidos' = all_sidos

\* C9: after any sequence of selections the rows and colours shown are those
\* of a fresh computation for the current selection, a selection never
\* modifies the loaded dataset, and the region list stays the same.
C9_SelectionsAreIndependent == [](C9_Fresh) /\ [][C9_Frame]_vars

\* the second region selected, after the first one was shown
C9_Witness ==
    /\ screen = "chart"
    /\ Len(all_sidos) = 2
    /\ selected_sido = all_sidos[2]
    /\ Cardinality(RecordsOf(all_sidos[1])) > 1

-----------------------------------------------------------------------------
(* C10 *)

\* C10: the colour list has one colour per row, in row order; the k-th
\* non-highlight row has the k-th colour of the reversed Blues palette while
\* k is below the palette length and '#4c78a8' from there on, and no list
\* access is out of range.
C10_GradientThenFallback ==
    screen = "chart" =>
        /\ Len(colors) = Len(type_counts)
        /\ \A i \in 1..Len(colors) :
              LET k == Cardinality({m \in 1..(i - 1) :
                           type_counts[m].facility_type # top_type})
              IN  /\ colors[i] # "IndexError"
                  /\ colors[i] =
                        IF type_counts[i].facility_type = top_type THEN "red"
                        ELSE IF k < 9
                             THEN Blues_r[k + 1]
                             ELSE "#4c78a8"

\* a row at the palette length
C10_Witness ==
    /\ screen = "chart"
    /\ Len(colors) > Len(Blues_r) + 1
    /\ colors[Len(Blues_r) + 2] = fallback

====
